---- MODULE Spec2Model ----
(***************************************************************************)
(* Model of the example scripts of agentic-ai-with-mcp-and-strands.        *)
(*                                                                         *)
(* The repository is a set of standalone scripts, so the module holds one  *)
(* specification per group of scripts:                                     *)
(*   SpecClassify  determine_action, the pure routing decision             *)
(*   SpecLoop      the interactive input loops (REPLs)                     *)
(*   SpecTeach     the query handling of the three TeachAssist apps        *)
(*   SpecPool      the thread-pool scripts (multi_monitor.py,              *)
(*                 video_game_research_st.py), SpecPoolFair with fairness  *)
(*   SpecServer    the Nova Act MCP server (nova_act_mcp_server.py)        *)
(* Every specification leaves the variables of the others at their         *)
(* initial value.                                                          *)
(***************************************************************************)
EXTENDS Integers, Sequences, FiniteSets, TLC

VARIABLES
    \* --- determine_action (SpecClassify)
    reply,        \* text of the model's reply, a sequence of characters
    decided,      \* app -> result of that app's determine_action, or "none"
    \* --- interactive loops (SpecLoop)
    script,       \* which script's loop runs
    lpc,          \* position of the loop
    lend,         \* why the loop ended ("" while it runs)
    ninputs,      \* number of inputs read so far
    nraised,      \* exceptions raised while handling a request
    nprinted,     \* error messages printed by the loop's handler
    \* --- TeachAssist apps (SpecTeach)
    app,          \* which app's script runs
    sidebar,      \* sidebar / environment settings of the run
    tpc,          \* position of the script run
    action,       \* the script's variable `action` ("unbound" before assignment)
    kbstep,       \* position inside run_kb_agent / run_memory_agent
    calls,        \* external calls made for the current query, in order
    messages,     \* st.session_state.messages (kinds of the messages)
    shown,        \* what message_placeholder displays
    failed,       \* an exception was raised while processing the current query
    nqueries,     \* queries submitted so far
    \* --- thread-pool scripts (SpecPool)
    prog,         \* "monitor" (multi_monitor.py) or "games" (video_game_research_st.py)
    max_threads,  \* run_game_search's parameter
    ntasks,       \* number of monitor models / games found
    max_workers,  \* worker count the pool was created with (0: no pool yet)
    mpc,          \* position of the main thread
    submitted,    \* number of tasks submitted to the pool
    tpos,         \* task -> position of the task
    rec,          \* task -> record the task works on
    collected,    \* tasks whose future the main thread has consumed
    all_results,  \* all_results / detailed_games, in collection order
    results_json, \* the "games" list written to results.json ("unwritten" before)
    \* --- Nova Act MCP server (SpecServer)
    workload,          \* the tools the client drives in this run
    nova_act_instance, \* the global session reference: None or a call's NovaAct
    browser,           \* browser_session call -> state of the browser it started
    results_store,     \* the global dict: result_id -> result
    session,           \* browser_session call -> position and locals of the call
    nbrowser_actions,  \* browser_action calls made so far
    last,              \* the response on its way to the client, if any
    browser_tasks,     \* argument of the execute_parallel_browser_tasks call
    ppos,              \* position of the execute_parallel_browser_tasks call
    processes,         \* the call's list `processes`: state of each process
    joined,            \* number of processes the call has joined
    nread,             \* number of result files the call has gone through
    result_files,      \* task -> content of its result file
    parallel_results   \* the call's list `all_results`

classifyVars == <<reply, decided>>
loopVars == <<script, lpc, lend, ninputs, nraised, nprinted>>
teachVars == <<app, sidebar, tpc, action, kbstep, calls, messages, shown, failed, nqueries>>
poolVars == <<prog, max_threads, ntasks, max_workers, mpc, submitted, tpos, rec,
              collected, all_results, results_json>>
sessionVars == <<nova_act_instance, browser, session, nbrowser_actions>>
parallelVars == <<browser_tasks, ppos, processes, joined, nread, result_files,
                  parallel_results>>
serverVars == <<workload, sessionVars, results_store, last, parallelVars>>
vars == <<classifyVars, loopVars, teachVars, poolVars, serverVars>>

Apps == {"app_kb", "app_kb_mem", "streamlit_app"}

(***************************************************************************)
(* Idle values: what a specification gives the variables it does not use.  *)
(***************************************************************************)
ClassifyIdle == reply = <<>> /\ decided = [a \in Apps |-> "none"]

LoopIdle ==
    /\ script = "none" /\ lpc = "off" /\ lend = ""
    /\ ninputs = 0 /\ nraised = 0 /\ nprinted = 0

TeachIdle ==
    /\ app = "none" /\ sidebar = [memory |-> FALSE, opensearch |-> FALSE]
    /\ tpc = "off" /\ action = "unbound" /\ kbstep = "none" /\ calls = <<>>
    /\ messages = <<>> /\ shown = "nothing" /\ failed = FALSE /\ nqueries = 0

PoolIdle ==
    /\ prog = "none" /\ max_threads = 0 /\ ntasks = 0 /\ max_workers = 0
    /\ mpc = "off" /\ submitted = 0 /\ tpos = <<>> /\ rec = <<>>
    /\ collected = {} /\ all_results = <<>> /\ results_json = "unwritten"

\* Python's None, and the empty dict {}.
None == "None"
EmptyDict == <<>>

\* browser_session calls of one run, named by their order of arrival.
MaxSessions == 2
Sessions == 1..MaxSessions

\* nova_act_instance = None: no session reference is held.  A held reference
\* is the number of the browser_session call whose NovaAct it is.
NoInstance == 0

\* The locals of a browser_session call that has not arrived yet.
NewSession ==
    [pos |-> "new", starting_page |-> 0, actions |-> <<>>, i |-> 0,
     results |-> <<>>, final_response |-> EmptyDict]

\* A call that has ended: its locals are gone.
Ended(pos) == [NewSession EXCEPT !.pos = pos]

\* No response is on its way to the client.
NoResponse ==
    [tool |-> "none", call |-> 0, args |-> EmptyDict, raised |-> None,
     value |-> EmptyDict]

ServerIdle ==
    /\ workload = "none" /\ nova_act_instance = NoInstance
    /\ browser = [s \in Sessions |-> "none"] /\ results_store = <<>>
    /\ session = [s \in Sessions |-> NewSession] /\ nbrowser_actions = 0
    /\ last = NoResponse /\ browser_tasks = <<>> /\ ppos = "idle"
    /\ processes = <<>> /\ joined = 0 /\ nread = 0 /\ result_files = <<>>
    /\ parallel_results = <<>>

(***************************************************************************)
(* Text.  A text is a sequence of one-character strings, so that lower(),  *)
(* strip() and the `in` test are computed character by character.          *)
(***************************************************************************)
W_teacher == <<"t", "e", "a", "c", "h", "e", "r">>
W_store == <<"s", "t", "o", "r", "e">>

\* str.lower() on one character
LowerChar(c) ==
    CASE c = "T" -> "t" [] c = "E" -> "e" [] c = "A" -> "a" [] c = "C" -> "c"
      [] c = "H" -> "h" [] c = "R" -> "r" [] c = "S" -> "s" [] c = "O" -> "o"
      [] c = "K" -> "k" [] c = "Q" -> "q" [] c = "U" -> "u" [] c = "I" -> "i"
      [] c = "X" -> "x" [] c = "D" -> "d" [] c = "M" -> "m" [] OTHER -> c

Lower(s) == [i \in 1..Len(s) |-> LowerChar(s[i])]

\* str.strip(): leading and trailing blanks removed
RECURSIVE LStrip(_)
LStrip(s) == IF s # <<>> /\ Head(s) = " " THEN LStrip(Tail(s)) ELSE s

RECURSIVE RStrip(_)
RStrip(s) ==
    IF s # <<>> /\ s[Len(s)] = " " THEN RStrip(SubSeq(s, 1, Len(s) - 1)) ELSE s

Strip(s) == RStrip(LStrip(s))

\* `pat in s`: scan the start positions from the left
RECURSIVE InFrom(_, _, _)
InFrom(pat, s, i) ==
    IF i + Len(pat) - 1 > Len(s) THEN FALSE
    ELSE IF SubSeq(s, i, i + Len(pat) - 1) = pat THEN TRUE
    ELSE InFrom(pat, s, i + 1)

In(pat, s) == InFrom(pat, s, 1)

\* str(result): use_llm returns a tool-result dict, and str() of it is the
\* dict's repr with the reply text inside (the repr's other keys, toolUseId
\* and status, are left out here: they hold neither "teacher" nor "store").
ReprPrefix == <<"{", "'", "t", "e", "x", "t", "'", ":", "'">>
ReprSuffix == <<"'", "}">>
StrOfResult(text) == ReprPrefix \o text \o ReprSuffix

\* action_text = str(result).lower().strip()
ActionText(text) == Strip(Lower(StrOfResult(text)))

(***************************************************************************)
(* determine_action: the three copies.  Each takes the reply text of the   *)
(* classification call and returns the routing decision.                   *)
(***************************************************************************)
determine_action_kb(text) ==
    IF In(W_teacher, ActionText(text)) THEN "teacher" ELSE "knowledgebase"

determine_action_kb_mem(text) ==
    IF In(W_teacher, ActionText(text)) THEN "teacher" ELSE "knowledgebase"

\* the same decision with the call to lower() left out
determine_action_st_NoLower(text) ==
    IF In(W_teacher, Strip(StrOfResult(text))) THEN "teacher" ELSE "knowledgebase"

determine_action_st(text) ==
    IF In(W_teacher, ActionText(text)) THEN "teacher" ELSE "knowledgebase"

determine_action(a, text) ==
    CASE a = "app_kb" -> determine_action_kb(text)
      [] a = "app_kb_mem" -> determine_action_kb_mem(text)
      [] OTHER -> determine_action_st(text)

\* run_kb_agent / run_memory_agent: "store" in action_text, else retrieve
kb_action(text) == IF In(W_store, ActionText(text)) THEN "store" ELSE "retrieve"

(***************************************************************************)
(* Replies of the model: free text, built from up to MaxFrags fragments.   *)
(***************************************************************************)
MaxFrags == 2

Fragments ==
    { <<"t", "e", "a", "c", "h">>,
      <<"e", "r">>,
      <<"T", "e", "a", "c", "h", "e", "r">>,
      <<"T", "E", "A", "C", "H", "E", "R">>,
      <<"k", "n", "o", "w", "l", "e", "d", "g", "e", "b", "a", "s", "e">>,
      <<"s", "t", "o", "r", "e">>,
      <<"S", "t", "o">>,
      <<"r", "e", "t", "r", "i", "e", "v", "e">>,
      <<" ">> }

RECURSIVE Texts(_)
Texts(n) ==
    IF n = 0 THEN {<<>>}
    ELSE LET shorter == Texts(n - 1)
         IN  shorter \cup {t \o f : t \in shorter, f \in Fragments}

Replies == Texts(MaxFrags)

(***************************************************************************)
(* SpecClassify: a reply is drawn, then each app's copy decides on it.     *)
(***************************************************************************)
InitClassify ==
    /\ reply \in Replies
    /\ decided = [a \in Apps |-> "none"]
    /\ LoopIdle /\ TeachIdle /\ PoolIdle /\ ServerIdle

ClassifyKb ==
    /\ decided["app_kb"] = "none"
    /\ decided' = [decided EXCEPT !["app_kb"] = determine_action_kb(reply)]
    /\ UNCHANGED <<reply, loopVars, teachVars, poolVars, serverVars>>

ClassifyKbMem ==
    /\ decided["app_kb_mem"] = "none"
    /\ decided' = [decided EXCEPT !["app_kb_mem"] = determine_action_kb_mem(reply)]
    /\ UNCHANGED <<reply, loopVars, teachVars, poolVars, serverVars>>

ClassifySt ==
    /\ decided["streamlit_app"] = "none"
    /\ decided' = [decided EXCEPT !["streamlit_app"] = determine_action_st(reply)]
    /\ UNCHANGED <<reply, loopVars, teachVars, poolVars, serverVars>>

NextClassify == ClassifyKb \/ ClassifyKbMem \/ ClassifySt

SpecClassify == InitClassify /\ [][NextClassify]_vars

\* the lower-cased reply holds "teacher" at some position
HasTeacher(text) ==
    \E i \in 1..Len(text) :
        /\ i + Len(W_teacher) - 1 <= Len(text)
        /\ \A j \in 1..Len(W_teacher) : LowerChar(text[i + j - 1]) = W_teacher[j]

HasKnowledgebase(text) ==
    \E i \in 1..Len(text) :
        /\ i + 12 <= Len(text)
        /\ SubSeq(text, i, i + 12) =
             <<"k", "n", "o", "w", "l", "e", "d", "g", "e", "b", "a", "s", "e">>

\* C4: determine_action answers "teacher" exactly when the lower-cased reply
\* contains "teacher" and "knowledgebase" otherwise (so a reply with both words
\* gives "teacher"); the answer is always one of the two, and the copies of
\* app_kb.py, app_kb_mem.py and streamlit_app.py agree on every reply.
C4_DetermineAction ==
    /\ \A a \in Apps :
          decided[a] # "none" =>
             /\ decided[a] \in {"teacher", "knowledgebase"}
             /\ (decided[a] = "teacher") <=> HasTeacher(reply)
    /\ \A a, b \in Apps :
          (decided[a] # "none" /\ decided[b] # "none") => decided[a] = decided[b]

\* a reply in capitals that names both routes, decided by all three copies
C4_Witness ==
    /\ HasKnowledgebase(reply)
    /\ HasTeacher(reply) /\ ~In(W_teacher, reply)
    /\ \A a \in Apps : decided[a] = "teacher"

(***************************************************************************)
(* SpecLoop: the interactive input loops.  One run of one script: the loop *)
(* reads an input, tests it for the exit words, and hands everything else  *)
(* to the agent.                                                           *)
(***************************************************************************)
Scripts ==
    {"telegram", "mem0", "weather", "aws_knowledge", "aws_documentation",
     "aws_location", "hello_world_client", "nova_act_client"}

MaxInputs == 3

W_exit == <<"e", "x", "i", "t">>
W_quit == <<"q", "u", "i", "t">>
W_demo == <<"d", "e", "m", "o">>

\* what the user may type
Inputs ==
    { W_exit, W_quit, W_demo,
      <<"E", "x", "i", "t">>, <<"Q", "U", "I", "T">>,
      <<" ", "q", "u", "i", "t", " ">>,
      <<"h", "i">> }

\* the words on which the script's loop breaks
ExitWords(sc) ==
    CASE sc = "mem0" -> {W_exit}
      [] sc = "nova_act_client" -> {W_quit}
      [] OTHER -> {W_exit, W_quit}

\* user_input as the script tests it: only nova_act_mcp_client.py strips it
Tested(sc, text) ==
    Lower(IF sc = "nova_act_client" THEN Strip(text) ELSE text)

\* the loop body is inside try / except Exception
HasHandler(sc) == sc \notin {"aws_documentation", "aws_location"}

\* mem0_agent.py's demo(): initialize_demo_memories, then three agent calls
DemoPos == <<"demo1", "demo2", "demo3", "demo4">>
DemoCalls == Len(DemoPos)
InDemo == \E k \in 1..DemoCalls : lpc = DemoPos[k]

InitLoop ==
    /\ script \in Scripts
    /\ lpc = "prompt" /\ lend = ""
    /\ ninputs = 0 /\ nraised = 0 /\ nprinted = 0
    /\ ClassifyIdle /\ TeachIdle /\ PoolIdle /\ ServerIdle

\* input() returns a line; exit test, 'demo' test, else the agent is called
ReadInput ==
    /\ lpc = "prompt" /\ ninputs < MaxInputs
    /\ \E text \in Inputs :
          /\ ninputs' = ninputs + 1
          /\ IF Tested(script, text) \in ExitWords(script)
                THEN lpc' = "ended" /\ lend' = "exit_input"
                ELSE IF script = "mem0" /\ Tested(script, text) = W_demo
                        THEN lpc' = DemoPos[1] /\ lend' = ""
                        ELSE lpc' = "handling" /\ lend' = ""
    /\ UNCHANGED <<script, nraised, nprinted, classifyVars, teachVars, poolVars, serverVars>>

\* the agent call (process_query in the MCP clients) returns
HandleReturn ==
    /\ lpc = "handling"
    /\ lpc' = "prompt"
    /\ UNCHANGED <<script, lend, ninputs, nraised, nprinted,
                   classifyVars, teachVars, poolVars, serverVars>>

\* the agent call raises an Exception: the loop's handler prints it and the
\* loop continues; without a handler it leaves the loop and ends the script
HandleRaise ==
    /\ lpc = "handling"
    /\ nraised' = nraised + 1
    /\ IF HasHandler(script)
          THEN lpc' = "prompt" /\ lend' = "" /\ nprinted' = nprinted + 1
          ELSE lpc' = "ended" /\ lend' = "exception" /\ nprinted' = nprinted
    /\ UNCHANGED <<script, ninputs, classifyVars, teachVars, poolVars, serverVars>>

\* Ctrl-C at the prompt or during a call: caught by the loop (break) or
\* propagated out of it; the loop ends either way
Interrupt ==
    /\ lpc \in {"prompt", "handling"} \/ InDemo
    /\ lpc' = "ended" /\ lend' = "keyboard_interrupt"
    /\ UNCHANGED <<script, ninputs, nraised, nprinted,
                   classifyVars, teachVars, poolVars, serverVars>>

\* mem0_agent.py: the next call of demo() returns; after the last one, break
DemoCall ==
    /\ \E k \in 1..DemoCalls :
          /\ lpc = DemoPos[k]
          /\ IF k < DemoCalls
                THEN lpc' = DemoPos[k + 1] /\ lend' = ""
                ELSE lpc' = "ended" /\ lend' = "demo"
    /\ UNCHANGED <<script, ninputs, nraised, nprinted,
                   classifyVars, teachVars, poolVars, serverVars>>

\* mem0_agent.py: one of demo()'s calls raises, inside the loop's try
DemoRaise ==
    /\ InDemo
    /\ lpc' = "prompt"
    /\ nraised' = nraised + 1 /\ nprinted' = nprinted + 1
    /\ UNCHANGED <<script, lend, ninputs, classifyVars, teachVars, poolVars, serverVars>>

NextLoop ==
    \/ ReadInput \/ HandleReturn \/ HandleRaise \/ Interrupt
    \/ DemoCall \/ DemoRaise

SpecLoop == InitLoop /\ [][NextLoop]_vars

\* C1 (as claimed): in every interactive loop an exception raised while a
\* request is handled is caught and an error message printed, the loop goes on,
\* and the loop ends only on an exit/quit input or a keyboard interrupt.
C1_LoopSurvivesErrors ==
    /\ nprinted = nraised
    /\ lpc = "ended" => lend \in {"exit_input", "keyboard_interrupt"}

(***************************************************************************)
(* SpecTeach: the three TeachAssist apps.  Streamlit runs the script once  *)
(* per submitted query; st.session_state.messages outlives the runs.       *)
(* Every external call (model, agent, memory tool) either returns or       *)
(* raises; `calls` logs the calls made for the current query.              *)
(***************************************************************************)
MaxQueries == 2

E_route == <<"route", "classify">>     \* determine_action's use_llm call
E_teacher == <<"teacher", "agent">>    \* teacher_agent(query)

\* the memory agent is selected in the sidebar and OpenSearch is configured
MemorySelected(sb) == sb.memory /\ sb.opensearch

\* where the try block starts in an app that skips classification whenever the
\* memory agent is selected
FirstStep_MemoryFirst(a, sb) ==
    IF a # "app_kb" /\ MemorySelected(sb) THEN "mem" ELSE "classify"

\* where the try block starts: streamlit_app.py hands the query to the memory
\* agent when that agent is selected; everything else starts with determine_action
FirstStep(a, sb) ==
    IF a = "streamlit_app" /\ MemorySelected(sb) THEN "mem" ELSE "classify"

\* the branch taken once `action` is known
RouteStep(a, sb, act) ==
    IF act = "teacher" THEN "teacher"
    ELSE IF a = "app_kb_mem" /\ MemorySelected(sb) THEN "mem"
    ELSE "kb"

\* first position inside the function that handles tpc = "kb" / "mem"
EntryStep(a, pos) ==
    IF pos = "mem" /\ a = "streamlit_app" THEN "agent"
    ELSE IF pos \in {"kb", "mem"} THEN "classify"
    ELSE "none"

InitTeach ==
    /\ app \in Apps
    /\ \E o \in BOOLEAN :
          /\ (app = "app_kb" => ~o)
          /\ sidebar = [memory |-> FALSE, opensearch |-> o]
    /\ tpc = "idle" /\ action = "unbound" /\ kbstep = "none" /\ calls = <<>>
    /\ messages = <<>> /\ shown = "nothing" /\ failed = FALSE /\ nqueries = 0
    /\ ClassifyIdle /\ LoopIdle /\ PoolIdle /\ ServerIdle

\* a query arrives: a new script run, with the sidebar as the user left it
Submit ==
    /\ tpc \in {"idle", "done", "crashed"} /\ nqueries < MaxQueries
    /\ nqueries' = nqueries + 1
    /\ \E m \in BOOLEAN :
          /\ m => sidebar.opensearch
          /\ sidebar' = [sidebar EXCEPT !.memory = m]
          /\ tpc' = FirstStep(app, sidebar')
          /\ kbstep' = EntryStep(app, tpc')
    /\ messages' = Append(messages, "user")
    /\ action' = "unbound" /\ calls' = <<>> /\ shown' = "nothing" /\ failed' = FALSE
    /\ UNCHANGED <<app, classifyVars, loopVars, poolVars, serverVars>>

\* the response is displayed and appended to the history
Answered ==
    /\ shown' = "answer" /\ messages' = Append(messages, "answer")
    /\ tpc' = "done" /\ kbstep' = "none"
    /\ UNCHANGED failed

\* an exception leaves the try block (or, in streamlit_app.py's handler, the
\* handler itself, which nothing catches)
Raised ==
    IF failed
       THEN /\ tpc' = "crashed" /\ kbstep' = "none"
            /\ UNCHANGED <<shown, messages, failed>>
       ELSE /\ failed' = TRUE
            /\ shown' = "error" /\ messages' = Append(messages, "error")
            /\ tpc' = IF app = "streamlit_app" THEN "handler" ELSE "done"
            /\ kbstep' = "none"

\* determine_action(query): one use_llm call, then the test on its reply
DetermineAction ==
    /\ tpc = "classify"
    /\ calls' = Append(calls, E_route)
    /\ \/ /\ \E r \in Replies :
                /\ action' = determine_action(app, r)
                /\ tpc' = RouteStep(app, sidebar, action')
                /\ kbstep' = EntryStep(app, tpc')
          /\ UNCHANGED <<shown, messages, failed>>
       \/ Raised /\ UNCHANGED action
    /\ UNCHANGED <<app, sidebar, nqueries, classifyVars, loopVars, poolVars, serverVars>>

\* teacher_agent(query)
TeacherCall ==
    /\ tpc = "teacher"
    /\ calls' = Append(calls, E_teacher)
    /\ Answered \/ Raised
    /\ UNCHANGED <<app, sidebar, action, nqueries, classifyVars, loopVars, poolVars, serverVars>>

\* run_kb_agent / run_memory_agent (app_kb_mem.py): store or retrieve?
StoreOrRetrieve ==
    /\ tpc \in {"kb", "mem"} /\ kbstep = "classify"
    /\ calls' = Append(calls, <<tpc, "classify">>)
    /\ \/ /\ \E r \in Replies : kbstep' = kb_action(r)
          /\ UNCHANGED <<tpc, shown, messages, failed>>
       \/ Raised
    /\ UNCHANGED <<app, sidebar, action, nqueries, classifyVars, loopVars, poolVars, serverVars>>

\* agent.tool.memory(action="store") / mem0_memory(action="store")
MemoryStore ==
    /\ tpc \in {"kb", "mem"} /\ kbstep = "store"
    /\ calls' = Append(calls, <<tpc, "store">>)
    /\ Answered \/ Raised
    /\ UNCHANGED <<app, sidebar, action, nqueries, classifyVars, loopVars, poolVars, serverVars>>

\* agent.tool.memory(action="retrieve") / mem0_memory(action="retrieve");
\* run_memory_agent lists all memories when nothing was retrieved
MemoryRetrieve ==
    /\ tpc \in {"kb", "mem"} /\ kbstep = "retrieve"
    /\ calls' = Append(calls, <<tpc, "retrieve">>)
    /\ \/ /\ \E empty \in BOOLEAN :
                kbstep' = IF tpc = "mem" /\ empty THEN "list" ELSE "answer"
          /\ UNCHANGED <<tpc, shown, messages, failed>>
       \/ Raised
    /\ UNCHANGED <<app, sidebar, action, nqueries, classifyVars, loopVars, poolVars, serverVars>>

\* run_memory_agent (app_kb_mem.py): mem0_memory(action="list")
MemoryList ==
    /\ tpc = "mem" /\ kbstep = "list"
    /\ calls' = Append(calls, <<tpc, "list">>)
    /\ \/ kbstep' = "answer" /\ UNCHANGED <<tpc, shown, messages, failed>>
       \/ Raised
    /\ UNCHANGED <<app, sidebar, action, nqueries, classifyVars, loopVars, poolVars, serverVars>>

\* the use_llm call that words the answer from what was retrieved
AnswerCall ==
    /\ tpc \in {"kb", "mem"} /\ kbstep = "answer"
    /\ calls' = Append(calls, <<tpc, "answer">>)
    /\ Answered \/ Raised
    /\ UNCHANGED <<app, sidebar, action, nqueries, classifyVars, loopVars, poolVars, serverVars>>

\* run_memory_agent (streamlit_app.py): agent(query, user_id=USER_ID)
MemoryAgentCall ==
    /\ tpc = "mem" /\ kbstep = "agent"
    /\ calls' = Append(calls, <<tpc, "agent">>)
    /\ Answered \/ Raised
    /\ UNCHANGED <<app, sidebar, action, nqueries, classifyVars, loopVars, poolVars, serverVars>>

\* streamlit_app.py, first except clause, after the error was shown and stored:
\* it reads `action` (NameError when it was never assigned) and runs the
\* teacher agent or run_kb_agent again
HandlerRoute ==
    /\ tpc = "handler"
    /\ IF action = "unbound"
          THEN tpc' = "crashed" /\ kbstep' = "none"
          ELSE /\ tpc' = IF action = "teacher" THEN "teacher" ELSE "kb"
               /\ kbstep' = EntryStep(app, tpc')
    /\ UNCHANGED <<app, sidebar, action, calls, messages, shown, failed, nqueries,
                   classifyVars, loopVars, poolVars, serverVars>>

NextTeach ==
    \/ Submit \/ DetermineAction \/ TeacherCall
    \/ StoreOrRetrieve \/ MemoryStore \/ MemoryRetrieve \/ MemoryList
    \/ AnswerCall \/ MemoryAgentCall \/ HandlerRoute

SpecTeach == InitTeach /\ [][NextTeach]_vars

\* ---- properties of SpecTeach

IsClassification(e) == e[2] = "classify"
IsMemoryOp(e) == e[2] \in {"store", "retrieve", "list"}
\* an agent works on the query: anything but determine_action's own call
IsProcessing(e) == e # E_route
\* the teacher agent is invoked, or run_kb_agent is entered
IsAgentInvocation(e) == e = E_teacher \/ e = <<"kb", "classify">>

Last(q) == q[Len(q)]

\* C2 (as claimed): when processing a query raises at any step, the failure is
\* caught, an assistant message with the error text is displayed and appended
\* to the history, and the script run ends without an uncaught exception.
C2_FailureBecomesErrorMessage ==
    /\ tpc # "crashed"
    /\ (tpc = "done" /\ failed) => (shown = "error" /\ Last(messages) = "error")

\* C3 (as claimed): nothing is retried; one submitted query causes at most one
\* invocation of the teacher agent or of the knowledge-base agent.
C3_NoRetry ==
    Len(SelectSeq(calls, IsAgentInvocation)) <= 1

\* C5 (as claimed): a query handled by the knowledge-base agent gets exactly two
\* classification calls, teacher-vs-knowledgebase first and store-vs-retrieve
\* second, and its memory operation comes after both; a query routed to the
\* teacher gets only the first classification call and no memory operation.
C5_TwoSequentialClassifications ==
    /\ (\E i \in 1..Len(calls) : calls[i][1] = "kb") =>
          /\ SelectSeq(calls, IsClassification) = <<E_route, <<"kb", "classify">>>>
          /\ \A i \in 1..Len(calls) :
                IsMemoryOp(calls[i]) =>
                   \E j, k \in 1..(i - 1) :
                      j < k /\ calls[j] = E_route /\ calls[k] = <<"kb", "classify">>
    /\ (\E i \in 1..Len(calls) : calls[i] = E_teacher) =>
          /\ SelectSeq(calls, IsClassification) = <<E_route>>
          /\ \A i \in 1..Len(calls) : ~IsMemoryOp(calls[i])

\* C6 (as claimed): in all three apps, whatever the sidebar settings, a query
\* is classified by determine_action before any agent processes it.
C6_ClassifiedFirst ==
    \A i \in 1..Len(calls) :
        IsProcessing(calls[i]) => \E j \in 1..(i - 1) : calls[j] = E_route

\* C6 (amended): a query is classified by determine_action before any agent
\* processes it, whatever the sidebar settings, except in streamlit_app.py with
\* the Memory Agent (OpenSearch) selected: there the query goes to the memory
\* agent alone and is never classified.
C6_ClassifiedFirstUnlessMemoryAgent ==
    IF app = "streamlit_app" /\ MemorySelected(sidebar)
       THEN \A i \in 1..Len(calls) : calls[i] = <<"mem", "agent">>
       ELSE C6_ClassifiedFirst

\* app_kb_mem.py with the OpenSearch backend selected: the memory agent works
\* on a query that determine_action classified first
C6_Witness ==
    /\ app = "app_kb_mem" /\ MemorySelected(sidebar)
    /\ Len(calls) >= 2 /\ calls[1] = E_route /\ calls[2][1] = "mem"

(***************************************************************************)
(* SpecPool: the two thread-pool scripts.  The main thread creates a       *)
(* ThreadPoolExecutor, submits one task per item and consumes the futures  *)
(* with as_completed; each task drives its own browser session.            *)
(*   monitor: parallel_monitor_comparison / check_monitor_on_amazon        *)
(*   games:   run_game_search / search_amazon_for_game                     *)
(***************************************************************************)
NumMonitorModels == 3     \* len(monitor_models)
MonitorPoolCap == 3       \* min(3, ...)
MaxGames == 2             \* most games find_top_games returns here
MaxThreads == 2           \* largest max_threads tried (the slider starts at 1)

Min(a, b) == IF a <= b THEN a ELSE b
Max(a, b) == IF a >= b THEN a ELSE b
MaxTasks == Max(NumMonitorModels, MaxGames)

Tasks == 1..ntasks

\* max_workers as each function computes it
monitor_workers(n) == Min(MonitorPoolCap, n)
game_workers(n, mt) == Max(1, Min(n, mt))
PoolSize == IF prog = "monitor" THEN monitor_workers(ntasks)
            ELSE game_workers(ntasks, max_threads)

\* what n.act(...).response may be: None, an empty text, a text
Responses == {"None", "", "$199"}
\* response or "N/A"
OrNA_Raw(resp) == resp
OrNA(resp) == IF resp \in {"None", ""} THEN "N/A" ELSE resp

\* the record a task starts from: the results dict, or the GameInfo object
NewRecord(t) ==
    IF prog = "monitor"
       THEN [model |-> t, price |-> "N/A", rating |-> "N/A", size |-> "N/A"]
       ELSE [title |-> t, amazon_url |-> "None", amazon_price |-> "None"]

\* the steps of a task, in order; after the last one the function returns
MonitorSteps == <<"session", "search", "click", "price", "rating", "size", "exit">>
GameSteps == <<"session", "search", "click", "extract", "save">>
Steps == IF prog = "monitor" THEN MonitorSteps ELSE GameSteps
StepIndex(pos) == CHOOSE i \in 1..Len(Steps) : Steps[i] = pos
Running(t) == \E i \in 1..Len(Steps) : tpos[t] = Steps[i]
NextPos(pos) ==
    IF StepIndex(pos) < Len(Steps) THEN Steps[StepIndex(pos) + 1] ELSE "completed"

\* a future is done: the call returned normally, returned from its except
\* clause, or raised
Finished(t) == tpos[t] \in {"completed", "caught", "raised"}
NumRunning == Cardinality({t \in Tasks : Running(t)})

\* a pool that starts a thread for every submitted task
WorkerFree_Always == TRUE
\* ThreadPoolExecutor: at most max_workers threads, each runs one task at a time
WorkerFree == NumRunning < max_workers

\* how a failed step leaves the task: check_monitor_on_amazon's except clause
\* swallows it and returns results; search_amazon_for_game lets it propagate
FailedAs_Propagate == "raised"
FailedAs == IF prog = "monitor" THEN "caught" ELSE "raised"

\* what the main thread appends for a future that returned
OnReturned(t) == <<rec[t]>>
\* and for a future whose result() raised: run_game_search falls back to the
\* game it submitted, parallel_monitor_comparison only prints
OnRaised_Nothing(t) == <<>>
OnRaised(t) == IF prog = "games" THEN <<rec[t]>> ELSE <<>>

InitPool ==
    /\ prog \in {"monitor", "games"}
    /\ IF prog = "monitor"
          THEN /\ max_threads = 0 /\ ntasks = NumMonitorModels
               /\ mpc = "create_pool"
          ELSE /\ max_threads \in 1..MaxThreads /\ ntasks = 0
               /\ mpc = "find"
    /\ tpos = [t \in 1..ntasks |-> "new"]
    /\ rec = [t \in 1..ntasks |-> NewRecord(t)]
    /\ max_workers = 0 /\ submitted = 0 /\ collected = {}
    /\ all_results = <<>> /\ results_json = "unwritten"
    /\ ClassifyIdle /\ LoopIdle /\ TeachIdle /\ ServerIdle

\* run_game_search, step 1: find_top_games returns its games, returns none
\* (the function then returns the empty results), or raises
FindTopGames ==
    /\ mpc = "find"
    /\ \/ \E n \in 0..MaxGames :
             /\ ntasks' = n
             /\ tpos' = [t \in 1..n |-> "new"]
             /\ rec' = [t \in 1..n |-> NewRecord(t)]
             /\ mpc' = IF n = 0 THEN "done" ELSE "create_pool"
       \/ mpc' = "raised" /\ UNCHANGED <<ntasks, tpos, rec>>
    /\ UNCHANGED <<prog, max_threads, max_workers, submitted, collected,
                   all_results, results_json, classifyVars, loopVars, teachVars, serverVars>>

\* with ThreadPoolExecutor(max_workers=max_workers) as executor
CreatePool ==
    /\ mpc = "create_pool"
    /\ max_workers' = PoolSize
    /\ mpc' = "submit"
    /\ UNCHANGED <<prog, max_threads, ntasks, submitted, tpos, rec, collected,
                   all_results, results_json, classifyVars, loopVars, teachVars, serverVars>>

\* executor.submit(...) for the next item; after the last one the main thread
\* turns to as_completed
SubmitTask ==
    /\ mpc = "submit"
    /\ submitted' = submitted + 1
    /\ tpos' = [tpos EXCEPT ![submitted + 1] = "queued"]
    /\ mpc' = IF submitted + 1 = ntasks THEN "collect" ELSE "submit"
    /\ UNCHANGED <<prog, max_threads, ntasks, max_workers, rec, collected,
                   all_results, results_json, classifyVars, loopVars, teachVars, serverVars>>

\* a free worker takes the oldest queued task and calls the function
StartTask(t) ==
    /\ tpos[t] = "queued"
    /\ \A u \in 1..(t - 1) : tpos[u] # "queued"
    /\ WorkerFree
    /\ tpos' = [tpos EXCEPT ![t] = Steps[1]]
    /\ rec' = [rec EXCEPT ![t] = NewRecord(t)]
    /\ UNCHANGED <<prog, max_threads, ntasks, max_workers, mpc, submitted, collected,
                   all_results, results_json, classifyVars, loopVars, teachVars, serverVars>>

\* a step that only acts on the page succeeds: the session starts, n.act
\* searches or clicks, the session closes, game_data.json is written
TaskAct(t) ==
    /\ Running(t) /\ tpos[t] \notin {"price", "rating", "size", "extract"}
    /\ tpos' = [tpos EXCEPT ![t] = NextPos(tpos[t])]
    /\ UNCHANGED <<prog, max_threads, ntasks, max_workers, mpc, submitted, rec,
                   collected, all_results, results_json,
                   classifyVars, loopVars, teachVars, serverVars>>

\* check_monitor_on_amazon: results[field] = n.act(question).response or "N/A"
MonitorExtract(t) ==
    /\ Running(t) /\ tpos[t] \in {"price", "rating", "size"}
    /\ \E resp \in Responses :
          rec' = [rec EXCEPT ![t] =
                    CASE tpos[t] = "price" -> [@ EXCEPT !.price = OrNA(resp)]
                      [] tpos[t] = "rating" -> [@ EXCEPT !.rating = OrNA(resp)]
                      [] OTHER -> [@ EXCEPT !.size = OrNA(resp)]]
    /\ tpos' = [tpos EXCEPT ![t] = NextPos(tpos[t])]
    /\ UNCHANGED <<prog, max_threads, ntasks, max_workers, mpc, submitted,
                   collected, all_results, results_json,
                   classifyVars, loopVars, teachVars, serverVars>>

\* search_amazon_for_game: the extraction returns; amazon_url is set, and when
\* the result matches the schema the price is taken over (if the key is there)
\* and the game is saved, otherwise the function returns at once
GameExtract(t) ==
    /\ Running(t) /\ tpos[t] = "extract"
    /\ \E matches, haskey \in BOOLEAN :
          /\ rec' = [rec EXCEPT ![t] =
                       [@ EXCEPT !.amazon_url = "url",
                                 !.amazon_price =
                                     IF matches /\ haskey THEN "$59" ELSE @]]
          /\ tpos' = [tpos EXCEPT ![t] = IF matches THEN "save" ELSE "completed"]
    /\ UNCHANGED <<prog, max_threads, ntasks, max_workers, mpc, submitted,
                   collected, all_results, results_json,
                   classifyVars, loopVars, teachVars, serverVars>>

\* the current step raises
TaskFail(t) ==
    /\ Running(t)
    /\ tpos' = [tpos EXCEPT ![t] = FailedAs]
    /\ UNCHANGED <<prog, max_threads, ntasks, max_workers, mpc, submitted, rec,
                   collected, all_results, results_json,
                   classifyVars, loopVars, teachVars, serverVars>>

\* as_completed yields a finished future (those already finished in no fixed
\* order) and the loop body consumes it.  The status and progress calls that
\* follow the append in run_game_search are taken not to raise.
Collect(t) ==
    /\ mpc = "collect" /\ Finished(t) /\ t \notin collected
    /\ collected' = collected \cup {t}
    /\ all_results' = all_results \o
                         (IF tpos[t] = "raised" THEN OnRaised(t) ELSE OnReturned(t))
    /\ mpc' = IF collected' = Tasks THEN "finish" ELSE "collect"
    /\ UNCHANGED <<prog, max_threads, ntasks, max_workers, submitted, tpos, rec,
                   results_json, classifyVars, loopVars, teachVars, serverVars>>

\* after the pool: run_game_search writes results.json; both return the list
Finish ==
    /\ mpc = "finish"
    /\ results_json' = IF prog = "games" THEN all_results ELSE results_json
    /\ mpc' = "done"
    /\ UNCHANGED <<prog, max_threads, ntasks, max_workers, submitted, tpos, rec,
                   collected, all_results, classifyVars, loopVars, teachVars, serverVars>>

MainThread ==
    \/ FindTopGames \/ CreatePool \/ SubmitTask \/ Finish
    \/ \E t \in Tasks : Collect(t)

Worker(t) ==
    StartTask(t) \/ TaskAct(t) \/ MonitorExtract(t) \/ GameExtract(t) \/ TaskFail(t)

NextPool ==
    \/ FindTopGames \/ CreatePool \/ SubmitTask \/ Finish
    \/ \E t \in Tasks : Collect(t)
    \/ \E t \in Tasks : StartTask(t)
    \/ \E t \in Tasks : TaskAct(t)
    \/ \E t \in Tasks : MonitorExtract(t)
    \/ \E t \in Tasks : GameExtract(t)
    \/ \E t \in Tasks : TaskFail(t)

SpecPool == InitPool /\ [][NextPool]_vars

\* the threads are scheduled: the main thread and every worker keep running
SpecPoolFair ==
    /\ SpecPool
    /\ WF_vars(MainThread)
    /\ \A t \in 1..MaxTasks : WF_vars(t \in Tasks /\ Worker(t))

\* ---- properties of SpecPool

Fields == {"N/A", "$199"}

\* C7: check_monitor_on_amazon never raises; whatever step of its browser
\* session fails, it returns a record with the requested model whose price,
\* rating and size are each the extracted value or "N/A" (never None, never
\* empty), and a field is "N/A" when the failure came before its extraction.
C7_MonitorRecordAlwaysReturned ==
    prog = "monitor" =>
       \A t \in Tasks :
          /\ tpos[t] # "raised"
          /\ rec[t].model = t
          /\ DOMAIN rec[t] = {"model", "price", "rating", "size"}
          /\ rec[t].price \in Fields /\ rec[t].rating \in Fields /\ rec[t].size \in Fields
          /\ (tpos[t] \in {"new", "queued", "session", "search", "click", "price"}
                => rec[t].price = "N/A")
          /\ (tpos[t] \in {"new", "queued", "session", "search", "click", "price", "rating"}
                => rec[t].rating = "N/A")
          /\ (tpos[t] \in {"new", "queued", "session", "search", "click", "price",
                           "rating", "size"}
                => rec[t].size = "N/A")

\* a search that failed after the price was extracted returned it, the other
\* fields defaulted
C7_Witness ==
    /\ prog = "monitor"
    /\ \E t \in Tasks :
          /\ tpos[t] = "caught"
          /\ rec[t].price = "$199" /\ rec[t].rating = "N/A" /\ rec[t].size = "N/A"

\* every task's record occurs exactly once in the list, unchanged
OneEntryEach ==
    /\ Len(all_results) = ntasks
    /\ \A t \in Tasks :
          Cardinality({i \in 1..Len(all_results) : all_results[i] = rec[t]}) = 1

\* C8: parallel_monitor_comparison returns exactly one record per monitor
\* model, whichever searches fail and in whatever order they complete; the
\* record of a search is what that search produced, whatever the others did.
C8_OneRecordPerModel ==
    (prog = "monitor" /\ mpc = "done") => OneEntryEach

\* two searches failed, the third completed, and the failed ones were
\* collected first
C8_Witness ==
    /\ prog = "monitor" /\ mpc = "done"
    /\ tpos[1] = "completed" /\ tpos[2] = "caught" /\ tpos[3] = "caught"
    /\ all_results[3].model = 1 /\ all_results[3].size = "$199"

\* C9: run_game_search's result and results.json hold exactly one entry per
\* game that find_top_games returned, whichever Amazon searches fail and in
\* whatever order they complete; a failed search contributes the game's
\* fallback entry.
C9_OneEntryPerGame ==
    (prog = "games" /\ mpc = "done") =>
       /\ OneEntryEach
       /\ ntasks > 0 => results_json = all_results

\* a search raised, another returned with a price, and the failed one came first
C9_Witness ==
    /\ prog = "games" /\ mpc = "done" /\ ntasks >= 2
    /\ tpos[1] = "completed" /\ rec[1].amazon_price = "$59"
    /\ tpos[2] = "raised"
    /\ all_results[1].title = 2

\* C10: never more browser sessions at once than the pool has workers; the
\* worker count is fixed when the pool is created, min(3, models) or
\* max(1, min(games, max_threads)), hence between 1 and max_threads; a queued
\* task starts only when a worker is free; every submitted task eventually runs.
C10_BoundedWorkers ==
    /\ [](NumRunning <= max_workers)
    /\ [](max_workers # 0 =>
            /\ prog = "monitor" => max_workers = Min(3, ntasks)
            /\ prog = "games" =>
                  /\ max_workers = Max(1, Min(ntasks, max_threads))
                  /\ 1 <= max_workers /\ max_workers <= max_threads)
    /\ [][max_workers # 0 => max_workers' = max_workers]_vars
    /\ [][\A t \in Tasks :
             (tpos[t] = "queued" /\ tpos'[t] # "queued") => NumRunning < max_workers]_vars
    /\ (\E t \in Tasks : tpos[t] = "queued") ~> (\A t \in Tasks : tpos[t] # "queued")

\* a submitted game search waits while every worker is busy
C10_Witness ==
    /\ prog = "games" /\ max_workers > 0 /\ NumRunning = max_workers
    /\ \E t \in Tasks : tpos[t] = "queued"

(***************************************************************************)
(* The Nova Act MCP server, src/strands_nova_example/nova_act_mcp_server.py *)
(*                                                                         *)
(* Tool handlers are coroutines of one event loop; browser_session runs    *)
(* its body in a worker thread (asyncio.to_thread), so the other tools can *)
(* be called while a browser_session call is in progress.  The body of a   *)
(* browser_session call is modelled step by step, every other handler as   *)
(* one action.  Each task of execute_parallel_browser_tasks runs in its own *)
(* process that shares nothing with the server, so the run of a process is *)
(* one action.  Of a result only the fields the handlers read are kept     *)
(* (final_page, valid_json, matches_schema and metadata are left out).     *)
(***************************************************************************)

\* dict.get(k, default)
Get(d, k, default) == IF k \in DOMAIN d THEN d[k] ELSE default

\* results_store is a dict: a function from its keys.
Keys(store) == DOMAIN store

StoreGet(store, k) == store[k]

\* results_store[k] = v
StorePut(store, k, v) ==
    [x \in DOMAIN store \cup {k} |-> IF x = k THEN v ELSE store[x]]

\* uuid.uuid4(): a value no other draw yields, named by the call that draws
\* it and the position of the draw in that call.
uuid4(kind, call, n) == <<kind, call, n>>

generate_id_Repeating(prefix, uuid) == <<prefix, <<"same", 0, 0>>>>

generate_id(prefix, uuid) == <<prefix, uuid>>

\* What NovaAct.act does: it raises, or it returns a result with a text
\* response; parsed_response is None unless a schema was passed.
Raises == [raised |-> TRUE, response |-> None, parsed_response |-> None]

ActOutcomes(schema) ==
    {Raises,
     [raised |-> FALSE, response |-> "text",
      parsed_response |-> IF schema THEN "data" ELSE None]}

\* act on the browser of a NovaAct: only an open browser can act.
ActOn(state, schema) == IF state = "open" THEN ActOutcomes(schema) ELSE {Raises}

\* result_data / result_item of a successful action
ResultItem(result_id, action_text, starting_page, result) ==
    [result_id |-> result_id, action |-> action_text,
     starting_page |-> starting_page, response |-> result.response,
     parsed_response |-> result.parsed_response]

\* the entry of an action that raised
ErrorResult(action_text) == [action |-> action_text, error |-> "str(e)"]

\* except Exception as e: results.append({"action": ..., "error": ...})
OnActionError_Drop(results, action_text) == results

OnActionError(results, action_text) == Append(results, ErrorResult(action_text))

(***************************************************************************)
(* browser_session, browser_action, take_screenshot, close_browser         *)
(***************************************************************************)
\* The action lists a browser_session call is given.
ActionLists == {<<>>, <<"search", "extract">>}

\* Results browser_action may store in one run.
MaxBrowserActions == 1

\* A tool's response: what it returned, or the exception it raised.
Response(tool, call, args, raised, value) ==
    [tool |-> tool, call |-> call, args |-> args, raised |-> raised, value |-> value]

\* `if not nova_act_instance`
NotStarted_Never(instance) == FALSE

NotStarted(instance) == instance = NoInstance

\* The browser behind a reference.
BrowserOf(instance) == IF instance = NoInstance THEN "none" ELSE browser[instance]

\* browser_session's "Close any existing browser session": the call goes on
\* to start a browser unless stopping the referenced session raised.
StopExisting_Ignore(instance, stopped) == "starting"

StopExisting(instance, stopped) ==
    IF instance = NoInstance \/ stopped THEN "starting" ELSE "raised"

\* final_response.get("parsed_response", final_response.get("response", None))
CollectedData(final_response) ==
    Get(final_response, "parsed_response", Get(final_response, "response", None))

\* The event loop sends a response as soon as a tool has produced it: the
\* server takes its next step once no response is waiting to be sent.
Ready == last.tool = "none"

\* The transport hands the response to the client.
Deliver ==
    /\ last.tool # "none"
    /\ last' = NoResponse
    /\ UNCHANGED <<workload, sessionVars, results_store, parallelVars,
                   classifyVars, loopVars, teachVars, poolVars>>

\* A browser_session call arrives: the handler up to asyncio.to_thread.
BrowserSession(s) ==
    /\ workload = "interactive"
    /\ Ready
    /\ session[s].pos = "new"
    /\ \A r \in Sessions : r < s => session[r].pos # "new"
    /\ \E actions \in ActionLists, stopped \in BOOLEAN :
         LET pos == StopExisting(nova_act_instance, stopped) IN
         /\ nova_act_instance = NoInstance => stopped
         /\ browser' = IF nova_act_instance # NoInstance /\ stopped
                       THEN [browser EXCEPT ![nova_act_instance] = "stopped"]
                       ELSE browser
         /\ session' = [session EXCEPT ![s] =
                IF pos = "raised" THEN Ended("raised")
                ELSE [NewSession EXCEPT !.pos = pos, !.starting_page = s,
                                        !.actions = actions]]
         /\ last' = IF pos = "raised"
                    THEN Response("browser_session", s, [actions |-> actions],
                                  "ActError", EmptyDict)
                    ELSE last
    /\ UNCHANGED <<workload, nova_act_instance, nbrowser_actions, results_store,
                   parallelVars, classifyVars, loopVars, teachVars, poolVars>>

\* run_browser_session enters `with NovaAct(...)`: the browser starts and the
\* reference is kept, or starting raises and the outer handler returns.
SessionStart(s) ==
    /\ Ready
    /\ session[s].pos = "starting"
    /\ \/ /\ browser' = [browser EXCEPT ![s] = "open"]
          /\ nova_act_instance' = s
          /\ session' = [session EXCEPT ![s].pos = "acting"]
          /\ UNCHANGED last
       \/ /\ nova_act_instance' = NoInstance
          /\ session' = [session EXCEPT ![s] = Ended("returned")]
          /\ last' = Response("browser_session", s,
                              [actions |-> session[s].actions], None,
                              [error |-> "str(e)"])
          /\ UNCHANGED browser
    /\ UNCHANGED <<workload, nbrowser_actions, results_store, parallelVars,
                   classifyVars, loopVars, teachVars, poolVars>>

\* One turn of `for i, action_text in enumerate(actions)`.
SessionAct(s) ==
    LET cur == session[s]
        i == cur.i + 1
        is_last == i = Len(cur.actions)
    IN
    /\ Ready
    /\ cur.pos = "acting"
    /\ cur.i < Len(cur.actions)
    /\ \E result \in ActOn(browser[s], FALSE) :
         LET action_text == cur.actions[i]
             result_id == generate_id("result", uuid4("session", s, i))
             result_item == ResultItem(result_id, action_text, cur.starting_page, result)
         IN
         IF result.raised
         THEN /\ session' = [session EXCEPT
                    ![s].i = i,
                    ![s].results = OnActionError(cur.results, action_text),
                    ![s].final_response =
                        IF is_last THEN ErrorResult(action_text)
                                   ELSE cur.final_response]
              /\ UNCHANGED results_store
         ELSE /\ results_store' = StorePut(results_store, result_id, result_item)
              /\ session' = [session EXCEPT
                    ![s].i = i,
                    ![s].results = Append(cur.results, result_item),
                    ![s].final_response =
                        IF is_last THEN result_item ELSE cur.final_response]
    /\ UNCHANGED <<workload, nova_act_instance, browser, nbrowser_actions, last,
                   parallelVars, classifyVars, loopVars, teachVars, poolVars>>

\* The `with` block ends (the context manager stops the browser), the
\* reference is cleared and the call returns.  A browser whose stop raised
\* is out of the server's reach like a stopped one, and is counted as such.
SessionExit(s) ==
    LET cur == session[s] IN
    /\ cur.pos = "acting"
    /\ cur.i = Len(cur.actions)
    /\ Ready
    /\ nova_act_instance' = NoInstance
    /\ session' = [session EXCEPT ![s] = Ended("returned")]
    /\ browser' = [browser EXCEPT ![s] = "stopped"]
    /\ \/ last' = Response("browser_session", s, [actions |-> cur.actions], None,
                        [starting_page |-> cur.starting_page,
                         all_results |-> cur.results,
                         final_result |-> cur.final_response,
                         collected_data |-> CollectedData(cur.final_response)])
       \/ last' = Response("browser_session", s, [actions |-> cur.actions], None,
                          [error |-> "str(e)"])
    /\ UNCHANGED <<workload, nbrowser_actions, results_store, parallelVars,
                   classifyVars, loopVars, teachVars, poolVars>>

\* The schema arguments of browser_action: it is called to extract data.
BrowserActionSchemas == {TRUE}

\* browser_action: one action in the referenced browser.
BrowserAction ==
    /\ workload = "interactive"
    /\ Ready
    /\ \E schema \in BrowserActionSchemas :
       LET args == [action |-> "click", schema |-> schema] IN
       \/ /\ NotStarted(nova_act_instance)
          /\ last' = Response("browser_action", 0, args, "ValueError", EmptyDict)
          /\ UNCHANGED <<results_store, nbrowser_actions>>
       \/ /\ ~NotStarted(nova_act_instance)
          /\ \E result \in ActOn(BrowserOf(nova_act_instance), schema) :
               LET result_id == generate_id("result",
                                    uuid4("action", 0, nbrowser_actions + 1))
               IN
               IF result.raised
               THEN /\ last' = Response("browser_action", 0, args, "Exception",
                                        EmptyDict)
                    /\ UNCHANGED <<results_store, nbrowser_actions>>
               ELSE /\ nbrowser_actions < MaxBrowserActions
                    /\ nbrowser_actions' = nbrowser_actions + 1
                    /\ results_store' = StorePut(results_store, result_id,
                            [result_id |-> result_id, action |-> "click",
                             response |-> result.response,
                             parsed_response |-> result.parsed_response])
                    /\ last' = Response("browser_action", 0, args, None,
                            [result_id |-> result_id,
                             response |-> result.response,
                             parsed_response |-> result.parsed_response])
    /\ UNCHANGED <<workload, nova_act_instance, browser, session, parallelVars,
                   classifyVars, loopVars, teachVars, poolVars>>

\* take_screenshot: a screenshot of the referenced browser's page.
TakeScreenshot ==
    /\ workload = "interactive"
    /\ Ready
    /\ \/ /\ NotStarted(nova_act_instance)
          /\ last' = Response("take_screenshot", 0, EmptyDict, "ValueError",
                              EmptyDict)
       \/ /\ ~NotStarted(nova_act_instance)
          /\ \E captured \in BOOLEAN :
               last' = IF captured /\ BrowserOf(nova_act_instance) = "open"
                       THEN Response("take_screenshot", 0, EmptyDict, None,
                                     [result |-> "save_path"])
                       ELSE Response("take_screenshot", 0, EmptyDict, "Exception",
                                     EmptyDict)
    /\ UNCHANGED <<workload, sessionVars, results_store, parallelVars,
                   classifyVars, loopVars, teachVars, poolVars>>

\* close_browser's `if success: nova_act_instance = None`
AfterStop_Clear(success, instance) == NoInstance

AfterStop(success, instance) == IF success THEN NoInstance ELSE instance

\* close_browser: stop the referenced session.
CloseBrowser ==
    /\ workload = "interactive"
    /\ Ready
    /\ \/ /\ NotStarted(nova_act_instance)
          /\ last' = Response("close_browser", 0, EmptyDict, None,
                              [result |-> FALSE])
          /\ UNCHANGED <<nova_act_instance, browser>>
       \/ /\ ~NotStarted(nova_act_instance)
          /\ \E success \in BOOLEAN :
               /\ browser' = IF success
                             THEN [browser EXCEPT ![nova_act_instance] = "stopped"]
                             ELSE browser
               /\ nova_act_instance' = AfterStop(success, nova_act_instance)
               /\ last' = Response("close_browser", 0, EmptyDict, None,
                                   [result |-> success])
    /\ UNCHANGED <<workload, session, nbrowser_actions, results_store,
                   parallelVars, classifyVars, loopVars, teachVars, poolVars>>

(***************************************************************************)
(* list_results, get_result, save_results                                  *)
(***************************************************************************)
\* An id generate_id never returned in this run.
UnknownId == generate_id("result", uuid4("never", 0, 0))

\* list_results: one info per item of results_store.
ListResults ==
    /\ workload # "none"
    /\ Ready
    /\ last' = Response("list_results", 0, EmptyDict, None,
            [result |-> [k \in Keys(results_store) |->
                [result_id |-> k,
                 action |-> Get(results_store[k], "action", ""),
                 response |-> Get(results_store[k], "response", "")]]])
    /\ UNCHANGED <<workload, sessionVars, results_store, parallelVars,
                   classifyVars, loopVars, teachVars, poolVars>>

\* get_result
GetResult ==
    /\ workload # "none"
    /\ Ready
    /\ \E result_id \in Keys(results_store) \cup {UnknownId} :
         last' = IF result_id \notin Keys(results_store)
                 THEN Response("get_result", 0, [result_id |-> result_id],
                               "ValueError", EmptyDict)
                 ELSE Response("get_result", 0, [result_id |-> result_id], None,
                               StoreGet(results_store, result_id))
    /\ UNCHANGED <<workload, sessionVars, results_store, parallelVars,
                   classifyVars, loopVars, teachVars, poolVars>>

\* The result_ids arguments of save_results: omitted (None), the empty
\* list, or a list of one stored id and one unknown id.
SaveArgs(store) ==
    {[omitted |-> TRUE, result_ids |-> <<>>],
     [omitted |-> FALSE, result_ids |-> <<>>]}
    \cup (IF store = <<>> THEN {}
          ELSE {[omitted |-> FALSE,
                 result_ids |-> <<CHOOSE k \in Keys(store) : TRUE, UnknownId>>]})

\* {rid: results_store[rid] for rid in result_ids if rid in results_store}
RECURSIVE Selected(_, _)
Selected(store, result_ids) ==
    IF result_ids = <<>> THEN <<>>
    ELSE LET n == Len(result_ids)
             before == Selected(store, SubSeq(result_ids, 1, n - 1))
             rid == result_ids[n]
         IN IF rid \in Keys(store)
            THEN StorePut(before, rid, StoreGet(store, rid))
            ELSE before

\* save_results_to_file's `data`: `if result_ids:` is false for None and
\* for the empty list.
SaveData(store, arg) ==
    IF ~arg.omitted /\ arg.result_ids # <<>>
    THEN Selected(store, arg.result_ids)
    ELSE store

\* save_results: write the data, True when the file was written.
SaveResults ==
    /\ workload # "none"
    /\ Ready
    /\ \E arg \in SaveArgs(results_store), written \in BOOLEAN :
         last' = Response("save_results", 0, arg, None,
                    [result |-> written,
                     data |-> IF written THEN SaveData(results_store, arg)
                              ELSE <<>>])
    /\ UNCHANGED <<workload, sessionVars, results_store, parallelVars,
                   classifyVars, loopVars, teachVars, poolVars>>

(***************************************************************************)
(* execute_parallel_browser_tasks and execute_nova_act_task                *)
(***************************************************************************)
\* Tasks one call is given at most.
MaxBrowserTasks == 2

\* An action of a task is a string or an action object.
Str(text) == [is_str |-> TRUE, action |-> text, schema |-> FALSE]
Obj(text, schema) == [is_str |-> FALSE, action |-> text, schema |-> schema]

\* "Convert action strings to action objects if needed"
ActionObject(a) ==
    IF a.is_str THEN [action |-> a.action]
    ELSE [action |-> a.action, schema |-> a.schema]

\* The action lists a task is given; task t starts at page t.
TaskActionLists == {<<>>, <<Str("search"), Obj("extract", TRUE)>>}

TaskLists ==
    UNION {{[t \in 1..n |-> [starting_page |-> t, actions |-> lists[t]]]
            : lists \in [1..n -> TaskActionLists]}
           : n \in 0..MaxBrowserTasks}

\* A result file: not there, cut short while being written, or written.
MissingFile == [state |-> "missing", content |-> EmptyDict]
PartialFile == [state |-> "partial", content |-> EmptyDict]
WrittenFile(content) == [state |-> "written", content |-> content]

\* The outcomes of a task's actions, one per action.
Outcomes(actions) ==
    {o \in [DOMAIN actions -> ActOutcomes(TRUE)] :
        \A k \in DOMAIN actions :
            o[k] \in ActOutcomes(Get(actions[k], "schema", FALSE))}

\* execute_nova_act_task's loop `for action_params in actions`
RECURSIVE TaskResults(_, _, _, _)
TaskResults(t, starting_page, actions, outcomes) ==
    IF actions = <<>> THEN <<>>
    ELSE LET n == Len(actions)
             before == TaskResults(t, starting_page, SubSeq(actions, 1, n - 1),
                                   SubSeq(outcomes, 1, n - 1))
             action_text == actions[n].action
             result_id == generate_id("result", uuid4("task", t, n))
         IN IF outcomes[n].raised
            THEN OnActionError(before, action_text)
            ELSE Append(before, ResultItem(result_id, action_text, starting_page,
                                           outcomes[n]))

\* execute_nova_act_task: what the process of task t writes to its result
\* file.  started: NovaAct started; exited: the `with` block ended without
\* raising.
execute_nova_act_task(t, task_args, started, outcomes, exited) ==
    LET starting_page == task_args.starting_page
        actions == [k \in DOMAIN task_args.actions |->
                        ActionObject(task_args.actions[k])]
        task_results == IF started
                        THEN TaskResults(t, starting_page, actions, outcomes)
                        ELSE <<>>
    IN IF started /\ exited
       THEN [starting_page |-> starting_page, results |-> task_results]
       ELSE [starting_page |-> starting_page, error |-> "str(e)",
             results |-> task_results]

\* process.join() returns once the process has terminated.
Terminated_Always(process) == TRUE

Terminated(process) == process \in {"exited", "died"}

\* "Process the task result to add final_result and collected_data"
WithFinalResult(task_result) ==
    IF "results" \in DOMAIN task_result /\ task_result.results # <<>>
    THEN LET final_result == task_result.results[Len(task_result.results)]
             with_final == [final_result |-> final_result] @@ task_result
         IN IF "parsed_response" \in DOMAIN final_result
            THEN [collected_data |-> final_result.parsed_response] @@ with_final
            ELSE IF "response" \in DOMAIN final_result
                 THEN [collected_data |-> final_result.response] @@ with_final
                 ELSE with_final
    ELSE task_result

\* "Store results in the results_store"
RECURSIVE StoreResults(_, _)
StoreResults(store, results) ==
    IF results = <<>> THEN store
    ELSE LET n == Len(results)
             before == StoreResults(store, SubSeq(results, 1, n - 1))
         IN IF "result_id" \in DOMAIN results[n]
            THEN StorePut(before, results[n].result_id, results[n])
            ELSE before

NotFound == [error |-> "Result file not found"]

\* One turn of `for result_file in result_files`: what it appends to
\* all_results.  The append of the not-found entry follows the `if`, it is
\* not its else branch.
CollectFile(all, file) ==
    IF file.state = "written"
    THEN Append(Append(all, WithFinalResult(file.content)), NotFound)
    ELSE IF file.state = "partial"
         THEN Append(all, [error |-> "str(e)"])
         ELSE Append(all, NotFound)

\* An execute_parallel_browser_tasks call arrives.
ExecuteParallel ==
    /\ workload = "batch"
    /\ Ready
    /\ ppos = "idle"
    /\ \E tasks \in TaskLists :
         /\ browser_tasks' = tasks
         /\ ppos' = IF tasks = <<>> THEN "collecting" ELSE "starting"
    /\ UNCHANGED <<workload, sessionVars, results_store, last, processes, joined,
                   nread, result_files, parallel_results,
                   classifyVars, loopVars, teachVars, poolVars>>

\* One turn of `for i, task in enumerate(browser_tasks)`: process.start()
StartProcess ==
    /\ Ready
    /\ ppos = "starting"
    /\ processes' = Append(processes, "running")
    /\ result_files' = Append(result_files, MissingFile)
    /\ ppos' = IF Len(processes') = Len(browser_tasks) THEN "joining" ELSE "starting"
    /\ UNCHANGED <<workload, sessionVars, results_store, last, browser_tasks, joined,
                   nread, parallel_results,
                   classifyVars, loopVars, teachVars, poolVars>>

\* The process of task t runs execute_nova_act_task to its end.
ProcessRun(t) ==
    /\ Ready
    /\ processes[t] = "running"
    /\ \E started \in BOOLEAN, exited \in BOOLEAN,
          outcomes \in Outcomes(browser_tasks[t].actions) :
         /\ ~started => exited /\ \A k \in DOMAIN outcomes : outcomes[k] = Raises
         /\ result_files' = [result_files EXCEPT ![t] =
                WrittenFile(execute_nova_act_task(t, browser_tasks[t], started,
                                                  outcomes, exited))]
    /\ processes' = [processes EXCEPT ![t] = "exited"]
    /\ UNCHANGED <<workload, sessionVars, results_store, last, browser_tasks, ppos,
                   joined, nread, parallel_results,
                   classifyVars, loopVars, teachVars, poolVars>>

\* The process of task t dies: before it wrote its result file, or while
\* writing it.
ProcessDie(t) ==
    /\ Ready
    /\ processes[t] = "running"
    /\ processes' = [processes EXCEPT ![t] = "died"]
    /\ \E file \in {MissingFile, PartialFile} :
         result_files' = [result_files EXCEPT ![t] = file]
    /\ UNCHANGED <<workload, sessionVars, results_store, last, browser_tasks, ppos,
                   joined, nread, parallel_results,
                   classifyVars, loopVars, teachVars, poolVars>>

\* One turn of `for process in processes: process.join()`
JoinProcess ==
    /\ Ready
    /\ ppos = "joining"
    /\ Terminated(processes[joined + 1])
    /\ joined' = joined + 1
    /\ ppos' = IF joined' = Len(processes) THEN "collecting" ELSE "joining"
    /\ UNCHANGED <<workload, sessionVars, results_store, last, browser_tasks,
                   processes, nread, result_files, parallel_results,
                   classifyVars, loopVars, teachVars, poolVars>>

\* One turn of `for result_file in result_files`
CollectResults ==
    /\ Ready
    /\ ppos = "collecting"
    /\ nread < Len(result_files)
    /\ LET file == result_files[nread + 1] IN
         /\ parallel_results' = CollectFile(parallel_results, file)
         /\ results_store' =
              IF file.state = "written" /\ "results" \in DOMAIN file.content
              THEN StoreResults(results_store, file.content.results)
              ELSE results_store
    /\ nread' = nread + 1
    /\ UNCHANGED <<workload, sessionVars, last, browser_tasks, ppos, processes,
                   joined, result_files,
                   classifyVars, loopVars, teachVars, poolVars>>

\* "Clean up temporary files", then return all_results; a failing clean-up
\* raises ValueError instead.
ReturnResults ==
    /\ ppos = "collecting"
    /\ nread = Len(result_files)
    /\ Ready
    /\ \/ /\ ppos' = "returned"
          /\ result_files' = [t \in DOMAIN result_files |-> MissingFile]
          /\ last' = Response("execute_parallel_browser_tasks", 0,
                              [browser_tasks |-> browser_tasks], None,
                              [result |-> parallel_results])
       \/ /\ ppos' = "raised"
          /\ last' = Response("execute_parallel_browser_tasks", 0,
                              [browser_tasks |-> browser_tasks], "ValueError",
                              EmptyDict)
          /\ UNCHANGED result_files
    /\ UNCHANGED <<workload, sessionVars, results_store, browser_tasks, processes,
                   joined, nread, parallel_results,
                   classifyVars, loopVars, teachVars, poolVars>>

(***************************************************************************)
(* The server: a client drives either the session tools or one parallel    *)
(* call; the two share only results_store, to which each adds new keys.    *)
(***************************************************************************)
InitServer ==
    /\ workload \in {"interactive", "batch"}
    /\ nova_act_instance = NoInstance
    /\ browser = [s \in Sessions |-> "none"]
    /\ results_store = <<>>
    /\ session = [s \in Sessions |-> NewSession]
    /\ nbrowser_actions = 0
    /\ last = NoResponse
    /\ browser_tasks = <<>> /\ ppos = "idle" /\ processes = <<>>
    /\ joined = 0 /\ nread = 0 /\ result_files = <<>> /\ parallel_results = <<>>
    /\ ClassifyIdle /\ LoopIdle /\ TeachIdle /\ PoolIdle

NextServer ==
    \/ Deliver
    \/ \E s \in Sessions : BrowserSession(s)
    \/ \E s \in Sessions : SessionStart(s)
    \/ \E s \in Sessions : SessionAct(s)
    \/ \E s \in Sessions : SessionExit(s)
    \/ BrowserAction
    \/ TakeScreenshot
    \/ CloseBrowser
    \/ ListResults
    \/ GetResult
    \/ SaveResults
    \/ ExecuteParallel
    \/ StartProcess
    \/ \E t \in DOMAIN processes : ProcessRun(t)
    \/ \E t \in DOMAIN processes : ProcessDie(t)
    \/ JoinProcess
    \/ CollectResults
    \/ ReturnResults

SpecServer == InitServer /\ [][NextServer]_vars

(***************************************************************************)
(* Claims about the Nova Act MCP server                                    *)
(***************************************************************************)
\* The entry the call appended for the file of task t stands for that task.
Represents(entry, t) ==
    IF result_files[t].state = "missing"
    THEN entry = NotFound
    ELSE /\ entry # NotFound
         /\ result_files[t].state = "written" =>
              /\ "starting_page" \in DOMAIN entry
              /\ entry.starting_page = browser_tasks[t].starting_page
              /\ entry.results # <<>> => "final_result" \in DOMAIN entry

\* C11: execute_parallel_browser_tasks returns exactly one task result per
\* submitted task, in the order submitted: the result of a task whose result
\* file exists (with starting_page and final_result), and the entry
\* {error: 'Result file not found'} only for a task whose file is missing.
C11_OneResultPerTask ==
    /\ ppos = "collecting" =>
         /\ Len(parallel_results) = nread
         /\ \A t \in 1..nread : Represents(parallel_results[t], t)
    /\ ppos = "returned" => Len(parallel_results) = Len(browser_tasks)

\* C12: once a browser_session call has returned its result, the browser it
\* started is open and the server still holds the reference to its session
\* (so that a following browser_action or take_screenshot runs against it).
C12_SessionLeftOpen ==
    (/\ last.tool = "browser_session"
     /\ last.raised = None
     /\ "all_results" \in DOMAIN last.value)
    => /\ nova_act_instance = last.call
       /\ browser[last.call] = "open"

\* C13: with no session reference held, browser_action and take_screenshot
\* raise ValueError, no browser acts, and results_store and the reference
\* stay as they were.
C13_NoSessionValueError ==
    [][(/\ Ready
        /\ nova_act_instance = NoInstance
        /\ last'.tool \in {"browser_action", "take_screenshot"})
       => /\ last'.raised = "ValueError"
          /\ UNCHANGED <<results_store, nova_act_instance, browser, session,
                         nbrowser_actions>>]_vars

C13_Witness ==
    /\ last.tool = "browser_action"
    /\ last.raised = "ValueError"
    /\ session[1].pos = "returned"
    /\ browser[1] = "stopped"
    /\ session[2].pos = "new"
    /\ results_store # <<>>

\* The result_ids of the entries of a result list.
IdsOf(results) ==
    {results[n].result_id : n \in {i \in DOMAIN results : "result_id" \in DOMAIN results[i]}}

\* The result_ids a response hands to the client.
ReturnedIds(response) ==
    IF response.raised # None THEN {}
    ELSE IF response.tool = "browser_action" THEN {response.value.result_id}
    ELSE IF response.tool = "browser_session"
         THEN IdsOf(Get(response.value, "all_results", <<>>))
    ELSE IF response.tool = "execute_parallel_browser_tasks"
         THEN UNION {IdsOf(Get(response.value.result[n], "results", <<>>))
                     : n \in DOMAIN response.value.result}
    ELSE {}

\* C14: every result_id that browser_session, browser_action or
\* execute_parallel_browser_tasks returns is a key of results_store, and no
\* step of the server removes or replaces an entry of results_store, so it
\* stays one; get_result returns the stored record of a stored id and raises
\* ValueError for an id never stored; list_results has exactly one entry for
\* every stored id.
C14_ReturnedIdsStayStored ==
    /\ [](ReturnedIds(last) \subseteq Keys(results_store))
    /\ [][\A k \in Keys(results_store) :
            /\ k \in Keys(results_store')
            /\ results_store'[k] = results_store[k]]_vars
    /\ [](last.tool = "get_result" =>
            IF last.args.result_id \in Keys(results_store)
            THEN /\ last.raised = None
                 /\ last.value = results_store[last.args.result_id]
                 /\ last.value.result_id = last.args.result_id
            ELSE last.raised = "ValueError")
    /\ [](last.tool = "list_results" =>
            \A k \in Keys(results_store) :
                Cardinality({n \in DOMAIN last.value.result :
                                last.value.result[n].result_id = k}) = 1)

C14_Witness ==
    /\ last.tool = "get_result"
    /\ last.raised = None
    /\ last.args.result_id = generate_id("result", uuid4("session", 1, 2))
    /\ generate_id("result", uuid4("action", 0, 1)) \in Keys(results_store)
    /\ session[1].pos = "returned"

\* save_results wrote exactly the stored results selected by result_ids.
WroteSelected(data, result_ids) ==
    /\ Keys(data) = {k \in Keys(results_store) :
                        \E n \in DOMAIN result_ids : result_ids[n] = k}
    /\ \A k \in Keys(data) : data[k] = results_store[k]

\* C15: save_results given a list of result_ids, the empty list included,
\* writes exactly the stored results whose ids are in the list; it writes
\* all stored results only when result_ids is omitted; it returns True or
\* False and never raises.
C15_SavesOnlySelected ==
    last.tool = "save_results" =>
        /\ last.raised = None
        /\ last.value.result =>
             IF last.args.omitted
             THEN last.value.data = results_store
             ELSE WroteSelected(last.value.data, last.args.result_ids)

\* The entries of a result list are those of the actions, one each, in order.
OneEntryPerAction(results, actions) ==
    /\ Len(results) = Len(actions)
    /\ \A n \in DOMAIN results :
         /\ results[n].action = actions[n]
         /\ "result_id" \in DOMAIN results[n] \/ "error" \in DOMAIN results[n]

ActionTexts(task) == [n \in DOMAIN task.actions |-> task.actions[n].action]

AllTerminated == \A t \in DOMAIN processes : processes[t] # "running"

\* C17: execute_parallel_browser_tasks starts the process of every task
\* before it waits for any of them, reads no result file before all the
\* processes have terminated, and can go on to its return once they all
\* have; the result of every task that wrote one is in the returned list,
\* whatever became of the other tasks.
C17_StartAllJoinAllThenRead ==
    /\ (joined > 0 \/ ppos \in {"joining", "collecting", "returned", "raised"})
          => Len(processes) = Len(browser_tasks)
    /\ (nread > 0 \/ parallel_results # <<>> \/ ppos \in {"collecting", "returned", "raised"})
          => AllTerminated /\ joined = Len(processes)
    /\ (ppos \in {"joining", "collecting"} /\ AllTerminated /\ Ready)
          => ENABLED (JoinProcess \/ CollectResults \/ ReturnResults)
    /\ ppos = "returned" =>
         \A t \in DOMAIN processes :
            processes[t] = "exited" =>
               \E n \in DOMAIN parallel_results :
                  /\ "results" \in DOMAIN parallel_results[n]
                  /\ parallel_results[n].starting_page = browser_tasks[t].starting_page
                  /\ OneEntryPerAction(parallel_results[n].results,
                                       ActionTexts(browser_tasks[t]))
                     \/ "error" \in DOMAIN parallel_results[n]

C17_Witness ==
    /\ ppos = "returned"
    /\ processes = <<"died", "exited">>
    /\ \E n \in DOMAIN parallel_results :
         /\ "results" \in DOMAIN parallel_results[n]
         /\ parallel_results[n].starting_page = 2
         /\ Len(parallel_results[n].results) = 2

\* What the claim says collected_data is, given the final action's entry.
FinalData(final_result) ==
    IF Get(final_result, "parsed_response", None) # None
    THEN final_result.parsed_response
    ELSE Get(final_result, "response", None)

\* C18: collected_data of browser_session and of a task result of
\* execute_parallel_browser_tasks is the final action's parsed_response when
\* it produced one, otherwise the final action's text response; it is None
\* or absent only when the final action produced neither.
C18_CollectedDataFallsBack ==
    /\ (last.tool = "browser_session" /\ "final_result" \in DOMAIN last.value) =>
          last.value.collected_data = FinalData(last.value.final_result)
    /\ \A n \in DOMAIN parallel_results :
          "final_result" \in DOMAIN parallel_results[n] =>
             Get(parallel_results[n], "collected_data", None)
                = FinalData(parallel_results[n].final_result)

\* C19: close_browser returns False and changes nothing when no session
\* reference is held; when stopping the session succeeds it returns True and
\* clears the reference, so that a following browser_action raises
\* ValueError; when stopping fails it returns False and keeps the reference.
C19_CloseBrowser ==
    /\ [][(Ready /\ last'.tool = "close_browser") =>
            /\ last'.raised = None
            /\ IF nova_act_instance = NoInstance
               THEN /\ last'.value.result = FALSE
                    /\ UNCHANGED <<nova_act_instance, browser, session, results_store>>
               ELSE IF last'.value.result
                    THEN /\ nova_act_instance' = NoInstance
                         /\ browser'[nova_act_instance] = "stopped"
                    ELSE UNCHANGED <<nova_act_instance, browser>>]_vars
    /\ [][(Ready /\ nova_act_instance = NoInstance /\ last'.tool = "browser_action")
            => last'.raised = "ValueError"]_vars

C19_Witness ==
    /\ last.tool = "browser_action"
    /\ last.raised = "ValueError"
    /\ \E s \in Sessions : session[s].pos = "acting" /\ browser[s] = "stopped"
    /\ \A s \in Sessions : session[s].pos \in {"acting", "new"}

\* The results a browser_session call s has stored.
StoredBy(s) == {k \in Keys(results_store) : k[2][1] = "session" /\ k[2][2] = s}

\* C20: browser_session first stops the session the server references, if
\* any, and only then starts the new browser; when stopping raises, the call
\* raises ActError, starts no browser and executes none of its actions.
C20_StopThenStart ==
    /\ [][\A s \in Sessions :
            (session[s].pos = "new" /\ session'[s].pos # "new") =>
               IF nova_act_instance = NoInstance
               THEN session'[s].pos = "starting" /\ browser' = browser
               ELSE \/ /\ session'[s].pos = "starting"
                       /\ browser'[nova_act_instance] = "stopped"
                    \/ /\ session'[s].pos = "raised"
                       /\ last'.tool = "browser_session" /\ last'.call = s
                       /\ last'.raised = "ActError"
                       /\ browser' = browser]_vars
    /\ [][\A s \in Sessions :
            (browser[s] = "none" /\ browser'[s] # "none") =>
               session[s].pos = "starting" /\ browser'[s] = "open"]_vars
    /\ [](\A s \in Sessions :
            session[s].pos \in {"new", "starting", "raised"} =>
               browser[s] = "none" /\ StoredBy(s) = {})

C20_Witness ==
    /\ session[2].pos = "raised"
    /\ last.raised = "ActError"
    /\ session[1].pos = "acting"
    /\ browser = <<"open", "none">>

====
